---- MODULE Spec2Model ----
(***************************************************************************)
(* Model of src/src/github-issue-handler.rs: the flows.network function    *)
(* that summarises a GitHub issue when a comment carries a trigger phrase. *)
(*                                                                         *)
(* Text.  A Rust String is modelled as a sequence of atoms.  An atom is a  *)
(* run of characters without a line break, or the line break NL itself.    *)
(* Texts that are searched (comment bodies, trigger phrases) and texts     *)
(* that are parsed (llm_ctx_size) are spelled one character per atom, so   *)
(* that substring search and number parsing work on characters.            *)
(*                                                                         *)
(* Option and Result values are tagged records: None, Some(v), Ok(v), Err. *)
(***************************************************************************)
EXTENDS Integers, Sequences, FiniteSets, TLC

VARIABLES
    env,                  \* the process environment (dotenv + env vars)
    deployed,             \* "init", "listening" or "panicked" (on_deploy)
    pc,                   \* where the handler is: "idle" or the await it is suspended at
    event,                \* the event of the current / most recent invocation
    all_text_from_issue,  \* the handler's local of that name, <<>> outside an invocation
    calls,                \* remote calls issued by the current / most recent invocation
    resps,                \* the answers those calls got, resps[i] answering calls[i]
    outcome,              \* how the current / most recent invocation ended
    prev                  \* on a re-delivery: what the previous delivery of the event did

vars == <<env, deployed, pc, event, all_text_from_issue, calls, resps, outcome, prev>>

\* Longest comment page the platform answers with in the model.
MaxComments == 2

----------------------------------------------------------------------------
(* Values *)

NL == "\n"

None == [tag |-> "None"]
Some(v) == [tag |-> "Some", v |-> v]
Ok(v) == [tag |-> "Ok", v |-> v]
Err == [tag |-> "Err"]
Panic(msg) == [tag |-> "Panic", msg |-> msg]

\* Option::unwrap_or / unwrap_or_else / unwrap_or_default, Result::unwrap_or
unwrap_or(o, d) == IF o.tag = "Some" THEN o.v ELSE d

\* str::contains with a &String pattern: plain substring search
contains(hay, needle) ==
    \E i \in 0..(Len(hay) - Len(needle)) : SubSeq(hay, i + 1, i + Len(needle)) = needle

\* [String]::join
RECURSIVE join(_, _)
join(names, sep) ==
    IF names = <<>> THEN <<>>
    ELSE IF Len(names) = 1 THEN names[1]
    ELSE names[1] \o sep \o join(Tail(names), sep)

DigitChars == <<"0", "1", "2", "3", "4", "5", "6", "7", "8", "9">>

IsDigit(c) == \E i \in 1..10 : DigitChars[i] = c

DigitVal(c) == CHOOSE i \in 0..9 : DigitChars[i + 1] = c

\* Display for an unsigned integer: its decimal digits
RECURSIVE Decimal(_)
Decimal(n) ==
    IF n < 10 THEN <<DigitChars[n + 1]>>
    ELSE Decimal(n \div 10) \o <<DigitChars[(n % 10) + 1]>>

----------------------------------------------------------------------------
(* str::parse::<u32>.  The value is kept as its canonical decimal digits    *)
(* (no sign, no leading zero), because u32::MAX exceeds the integers the    *)
(* model checker computes with; the range check compares digit strings.    *)

U32MaxDigits == <<"4", "2", "9", "4", "9", "6", "7", "2", "9", "5">>

RECURSIVE StripZeros(_)
StripZeros(d) == IF Len(d) > 1 /\ d[1] = "0" THEN StripZeros(Tail(d)) ELSE d

\* a <= b for digit strings of equal length
RECURSIVE DigitsLeq(_, _)
DigitsLeq(a, b) ==
    \/ a = <<>>
    \/ DigitVal(a[1]) < DigitVal(b[1])
    \/ a[1] = b[1] /\ DigitsLeq(Tail(a), Tail(b))

FitsU32(d) ==
    \/ Len(d) < Len(U32MaxDigits)
    \/ Len(d) = Len(U32MaxDigits) /\ DigitsLeq(d, U32MaxDigits)

\* A plausible slip: a value that does not parse falls back to the default.
ParseU32OrDefault(s) ==
    LET digits == IF s # <<>> /\ s[1] = "+" THEN Tail(s) ELSE s
    IN  IF digits # <<>> /\ (\A i \in 1..Len(digits) : IsDigit(digits[i]))
           /\ FitsU32(StripZeros(digits))
        THEN Ok(StripZeros(digits))
        ELSE Ok(<<"1", "6", "3", "8", "4">>)

\* u32::from_str: empty -> Err; one leading '+' is accepted; every other
\* character must be a decimal digit ('-' is not); the value must fit 32 bits.
ParseU32(s) ==
    IF s = <<>> THEN Err
    ELSE LET digits == IF s[1] = "+" THEN Tail(s) ELSE s
         IN  IF digits = <<>> THEN Err
             ELSE IF \E i \in 1..Len(digits) : ~IsDigit(digits[i]) THEN Err
             ELSE IF ~FitsU32(StripZeros(digits)) THEN Err
             ELSE Ok(StripZeros(digits))

----------------------------------------------------------------------------
(* Configuration *)

DefaultTriggerPhrase ==
    <<"@", "f", "l", "o", "w", "s", "_", "s", "u", "m", "m", "a", "r", "i", "z", "e">>

DefaultModelName == <<"gpt-4">>

DefaultCtxSize == <<"1", "6", "3", "8", "4">>

\* handler, lines 34-40: the environment is read on every invocation, in
\* this order; expect() panics on the first variable that is missing or bad.
HandlerConfig(e) ==
    IF e.github_owner.tag = "None" THEN Panic("github_owner not set")
    ELSE IF e.github_repo.tag = "None" THEN Panic("github_repo not set")
    ELSE IF e.llm_api_endpoint.tag = "None" THEN Panic("llm_api_endpoint not set")
    ELSE IF ParseU32(unwrap_or(e.llm_ctx_size, DefaultCtxSize)).tag = "Err"
         THEN Panic("Invalid llm_ctx_size")
    ELSE IF e.llm_api_key.tag = "None" THEN Panic("llm_api_key not set")
    ELSE Ok([owner |-> e.github_owner.v,
             repo |-> e.github_repo.v,
             trigger_phrase |-> unwrap_or(e.trigger_phrase, DefaultTriggerPhrase),
             llm_api_endpoint |-> e.llm_api_endpoint.v,
             llm_model_name |-> unwrap_or(e.llm_model_name, DefaultModelName),
             llm_ctx_size |-> ParseU32(unwrap_or(e.llm_ctx_size, DefaultCtxSize)).v,
             llm_api_key |-> e.llm_api_key.v])

----------------------------------------------------------------------------
(* The texts the handler formats *)

\* lines 68-72: the header of the aggregated text
Header(issue) ==
    LET labels == join([i \in 1..Len(issue.labels) |-> issue.labels[i].name], <<", ">>)
    IN  <<"User '">> \o issue.user.login
        \o <<"', opened an issue titled '">> \o issue.title
        \o <<"', labeled '">> \o labels
        \o <<"', with the following post: '">> \o unwrap_or(issue.body, <<>>)
        \o <<"'.", NL>>

\* lines 87-89: the line one fetched comment contributes
CommentLine(comment) ==
    comment.user.login \o <<" commented: ">> \o unwrap_or(comment.body, <<>>) \o <<NL>>

\* A plausible slip: comments without a body are skipped.
RECURSIVE AppendCommentsWithBody(_, _)
AppendCommentsWithBody(text, comments) ==
    IF comments = <<>> THEN text
    ELSE AppendCommentsWithBody(
             IF Head(comments).body.tag = "Some"
             THEN text \o CommentLine(Head(comments)) ELSE text,
             Tail(comments))

\* lines 86-90: the loop that appends every fetched comment, in page order
RECURSIVE AppendComments(_, _)
AppendComments(text, comments) ==
    IF comments = <<>> THEN text
    ELSE AppendComments(text \o CommentLine(Head(comments)), Tail(comments))

\* lines 93-96
SysPrompt(issue) ==
    <<"Given the information that user '">> \o issue.user.login
    \o <<"' opened an issue titled '">> \o issue.title
    \o <<"', your task is to deeply analyze the content of the issue posts. Distill the crux of the issue, the potential solutions suggested.">>

UsrPromptLead == "Analyze the GitHub issue content: "

UsrPromptTail == ". Provide a concise analysis touching upon: The central problem discussed in the issue. The main solutions proposed or agreed upon. Aim for a succinct, analytical summary that stays under 128 tokens."

\* lines 108-111
UsrPrompt(text) == <<UsrPromptLead>> \o text \o <<UsrPromptTail>>

Temperature == <<"0", ".", "7">>

MaxTokens == 192

PerPage == 100

\* lines 98-106
ChatOptionsOf(cfg, issue) ==
    [model |-> Some(cfg.llm_model_name),
     token_limit |-> cfg.llm_ctx_size,
     restart |-> TRUE,
     system_prompt |-> Some(SysPrompt(issue)),
     temperature |-> Some(Temperature),
     max_tokens |-> Some(MaxTokens)]

Attribution == "This result is generated by flows.network. Triggered by @"

\* A plausible slip: the attribution names the issue's author.
RespCreditingIssueAuthor(e, summary) ==
    e.issue.title \o <<NL>> \o e.issue.html_url \o <<NL>> \o summary
    \o <<NL, NL, Attribution>> \o e.issue.user.login

\* lines 126-129: the body of the comment that is posted
Resp(e, summary) ==
    e.issue.title \o <<NL>> \o e.issue.html_url \o <<NL>> \o summary
    \o <<NL, NL, Attribution>> \o e.comment.user.login

\* The three remote calls, with the arguments the handler passes.
ListCommentsCall(cfg, e) ==
    [op |-> "list_comments", owner |-> cfg.owner, repo |-> cfg.repo,
     issue |-> e.issue.number, per_page |-> PerPage]

ChatCompletionCall(cfg, e, text) ==
    [op |-> "chat_completion", endpoint |-> cfg.llm_api_endpoint,
     api_key |-> cfg.llm_api_key,
     conversation_id |-> <<"issue_">> \o Decimal(e.issue.number),
     usr_prompt |-> UsrPrompt(text),
     co |-> ChatOptionsOf(cfg, e.issue)]

CreateCommentCall(cfg, e, summary) ==
    [op |-> "create_comment", owner |-> cfg.owner, repo |-> cfg.repo,
     issue |-> e.issue.number, body |-> Resp(e, summary)]

----------------------------------------------------------------------------
(* Inputs: environments, webhook events and the remote services' answers *)

BaseEnv ==
    [github_owner |-> Some(<<"WasmEdge">>),
     github_repo |-> Some(<<"wasmedge">>),
     trigger_phrase |-> None,
     llm_api_endpoint |-> Some(<<"https://llm.example/v1">>),
     llm_model_name |-> None,
     llm_ctx_size |-> None,
     llm_api_key |-> Some(<<"sk-key">>)]

\* llm_ctx_size values u32::from_str accepts
ValidCtxSizes ==
    {<<"8", "1", "9", "2">>,
     <<"+", "5">>,
     <<"4", "2", "9", "4", "9", "6", "7", "2", "9", "5">>}

\* llm_ctx_size values u32::from_str rejects: not a number, empty, signed,
\* trailing garbage, a lone sign, and one past u32::MAX
InvalidCtxSizes ==
    {<<"a", "b", "c">>,
     <<>>,
     <<"-", "1">>,
     <<"1", "6", "k">>,
     <<"+">>,
     <<"4", "2", "9", "4", "9", "6", "7", "2", "9", "6">>}

Envs ==
    {BaseEnv}
    \cup {[BaseEnv EXCEPT !.trigger_phrase = Some(t)] : t \in {<<"@", "s">>, <<>>}}
    \cup {[BaseEnv EXCEPT !.llm_model_name = Some(<<"llama-3">>)]}
    \cup {[BaseEnv EXCEPT !.llm_ctx_size = Some(c)] : c \in ValidCtxSizes \cup InvalidCtxSizes}
    \cup {[BaseEnv EXCEPT !.github_owner = None],
          [BaseEnv EXCEPT !.github_repo = None],
          [BaseEnv EXCEPT !.llm_api_endpoint = None],
          [BaseEnv EXCEPT !.llm_api_key = None]}

Issues ==
    {[user |-> [login |-> <<"carol">>],
      title |-> <<"Bug X">>,
      number |-> 7,
      html_url |-> <<"https://github.com/WasmEdge/wasmedge/issues/7">>,
      body |-> None,
      labels |-> <<>>],
     [user |-> [login |-> <<"dave">>],
      title |-> <<"Crash on start">>,
      number |-> 1020,
      html_url |-> <<"https://github.com/WasmEdge/wasmedge/issues/1020">>,
      body |-> Some(<<"It crashes.", NL, "See the log.">>),
      labels |-> <<[name |-> <<"bug">>], [name |-> <<"help wanted">>]>>]}

\* The comment of the webhook event: without a body, with a near miss of the
\* default trigger phrase (case differs), with the default trigger phrase,
\* and with the short custom trigger phrase "@s".
EventComments ==
    {[user |-> [login |-> <<"alice">>], body |-> None],
     [user |-> [login |-> <<"bob">>],
      body |-> Some(<<"@", "F", "l", "o", "w", "s", "_", "s", "u", "m", "m", "a", "r",
                      "i", "z", "e">>)],
     [user |-> [login |-> <<"alice">>],
      body |-> Some(<<"p", "l", "s", " ">> \o DefaultTriggerPhrase \o <<" ", "!">>)],
     [user |-> [login |-> <<"bob">>],
      body |-> Some(<<"x", "@", "s">>)]}

Actions == {"created", "edited", "deleted"}

IssueCommentEvent(action, comment, issue) ==
    Ok([specific |-> [variant |-> "IssueComment", action |-> action,
                      comment |-> comment, issue |-> issue]])

Events ==
    {Err}
    \cup {Ok([specific |-> [variant |-> "Issues"]])}
    \cup {IssueCommentEvent(a, c, i) : a \in Actions, c \in EventComments, i \in Issues}

\* The comments a listing can return
ListedComments ==
    {[user |-> [login |-> <<"alice">>], body |-> None],
     [user |-> [login |-> <<"bob">>], body |-> Some(<<"Same here.">>)]}

ListResponses ==
    {Err} \cup {Ok([items |-> p]) : p \in UNION {[1..n -> ListedComments] : n \in 0..MaxComments}}

\* The completion service answers with one choice, of one line or several
ChatResponses ==
    {Err,
     Ok([choice |-> <<"The app crashes; a fix is proposed.">>]),
     Ok([choice |-> <<"Problem: crash.", NL, "Fix: upgrade.">>])}

CreateResponses == {Err, Ok([id |-> 1])}

NoEvent == [tag |-> "NoEvent"]

NoPrev == [outcome |-> "none", calls |-> <<>>, resps |-> <<>>]

----------------------------------------------------------------------------
(* The program *)

Init ==
    /\ env \in Envs
    /\ deployed = "init"
    /\ pc = "idle"
    /\ event = NoEvent
    /\ all_text_from_issue = <<>>
    /\ calls = <<>>
    /\ resps = <<>>
    /\ outcome = "none"
    /\ prev = NoPrev

\* on_deploy, lines 17-26: subscribes to issue_comment events of the
\* configured repository; panics when owner or repo is not set.
on_deploy ==
    /\ deployed = "init"
    /\ deployed' = IF env.github_owner.tag = "None" \/ env.github_repo.tag = "None"
                   THEN "panicked" ELSE "listening"
    /\ UNCHANGED <<env, pc, event, all_text_from_issue, calls, resps, outcome, prev>>

\* The invocation ends (return or panic): its locals are dropped.
Return(how) ==
    /\ pc' = "idle"
    /\ outcome' = how
    /\ all_text_from_issue' = <<>>

\* A plausible slip: the action of the issue-comment event is not looked at.
AnyAction(e) == TRUE

\* A plausible slip: an event whose summary was just posted is skipped.
IsCreatedAndNotYetPosted(e) == e.action = "created" /\ outcome # "posted"

\* line 51
IsCreated(e) == e.action = "created"

\* A plausible slip: the trigger phrase is only looked for in a non-empty body.
HasTriggerOrIsEmpty(body, trigger_phrase) ==
    body = <<>> \/ contains(body, trigger_phrase)

\* line 57
HasTrigger(body, trigger_phrase) == contains(body, trigger_phrase)

\* handler, lines 29-78: from the entry to the first await (the comment
\* listing) or to an early return.
handler(ev) ==
    /\ deployed = "listening"
    /\ pc = "idle"
    /\ event' = ev
    /\ resps' = <<>>
    /\ LET cfg == HandlerConfig(env)
       IN  IF cfg.tag = "Panic" THEN Return("panic") /\ calls' = <<>>
           ELSE IF ev.tag = "Err" THEN Return("parse_error") /\ calls' = <<>>
           ELSE IF ev.v.specific.variant # "IssueComment"
                THEN Return("not_issue_comment") /\ calls' = <<>>
           ELSE LET e == ev.v.specific
                IN  IF ~IsCreated(e) THEN Return("not_created") /\ calls' = <<>>
                    ELSE IF ~HasTrigger(unwrap_or(e.comment.body, <<>>), cfg.v.trigger_phrase)
                         THEN Return("no_trigger") /\ calls' = <<>>
                    ELSE /\ all_text_from_issue' = Header(e.issue)
                         /\ calls' = <<ListCommentsCall(cfg.v, e)>>
                         /\ pc' = "list_comments"
                         /\ outcome' = "processing"
    /\ UNCHANGED <<env, deployed>>

\* The platform delivers a webhook event.
Deliver ==
    /\ \E ev \in Events : handler(ev)
    /\ prev' = NoPrev

\* The platform delivers the event of the last invocation once more.
Redeliver ==
    /\ event # NoEvent
    /\ handler(event)
    /\ prev' = [outcome |-> outcome, calls |-> calls, resps |-> resps]

\* The handler's bindings that live across its awaits.
Cfg == HandlerConfig(env).v

E == event.v.specific

\* lines 86-118: aggregate the fetched comments, build the prompts and the
\* options, and call the completion service.
AskForSummary(comments) ==
    LET text == AppendComments(all_text_from_issue, comments)
    IN  /\ all_text_from_issue' = text
        /\ calls' = Append(calls, ChatCompletionCall(Cfg, E, text))
        /\ pc' = "chat_completion"
        /\ outcome' = "processing"

\* lines 126-132: build the reply and post it.
PostSummary(summary) ==
    /\ calls' = Append(calls, CreateCommentCall(Cfg, E, summary))
    /\ pc' = "create_comment"
    /\ UNCHANGED <<all_text_from_issue, outcome>>

\* A plausible slip: a failed listing is treated as an empty thread.
list_comments_returns_lenient ==
    /\ pc = "list_comments"
    /\ \E r \in ListResponses :
        /\ resps' = Append(resps, r)
        /\ IF r.tag = "Ok" THEN AskForSummary(r.v.items) ELSE AskForSummary(<<>>)
    /\ UNCHANGED <<env, deployed, event, prev>>

\* A plausible slip: a failed listing is tried a second time.
list_comments_returns_retrying ==
    /\ pc = "list_comments"
    /\ \E r \in ListResponses :
        /\ resps' = Append(resps, r)
        /\ IF r.tag = "Ok" THEN AskForSummary(r.v.items)
           ELSE IF Len(calls) < 2
                THEN /\ calls' = Append(calls, ListCommentsCall(Cfg, E))
                     /\ UNCHANGED <<pc, all_text_from_issue, outcome>>
                ELSE Return("list_failed") /\ UNCHANGED calls
    /\ UNCHANGED <<env, deployed, event, prev>>

\* lines 78-84: the comment listing answers.
list_comments_returns ==
    /\ pc = "list_comments"
    /\ \E r \in ListResponses :
        /\ resps' = Append(resps, r)
        /\ IF r.tag = "Ok" THEN AskForSummary(r.v.items)
           ELSE Return("list_failed") /\ UNCHANGED calls
    /\ UNCHANGED <<env, deployed, event, prev>>

\* A plausible slip: a failed completion still posts, with an empty summary.
chat_completion_returns_lenient ==
    /\ pc = "chat_completion"
    /\ \E r \in ChatResponses :
        /\ resps' = Append(resps, r)
        /\ IF r.tag = "Ok" THEN PostSummary(r.v.choice) ELSE PostSummary(<<>>)
    /\ UNCHANGED <<env, deployed, event, prev>>

\* lines 118-124: the completion service answers.
chat_completion_returns ==
    /\ pc = "chat_completion"
    /\ \E r \in ChatResponses :
        /\ resps' = Append(resps, r)
        /\ IF r.tag = "Ok" THEN PostSummary(r.v.choice)
           ELSE Return("chat_failed") /\ UNCHANGED calls
    /\ UNCHANGED <<env, deployed, event, prev>>

\* A plausible slip: a failed post is tried a second time.
create_comment_returns_retrying ==
    /\ pc = "create_comment"
    /\ \E r \in CreateResponses :
        /\ resps' = Append(resps, r)
        /\ IF r.tag = "Ok" THEN Return("posted") /\ UNCHANGED calls
           ELSE IF Len(calls) < 4
                THEN /\ calls' = Append(calls, calls[Len(calls)])
                     /\ UNCHANGED <<pc, all_text_from_issue, outcome>>
                ELSE Return("post_failed") /\ UNCHANGED calls
    /\ UNCHANGED <<env, deployed, event, prev>>

\* lines 132-136: the comment post answers; either way the handler ends.
create_comment_returns ==
    /\ pc = "create_comment"
    /\ \E r \in CreateResponses :
        /\ resps' = Append(resps, r)
        /\ Return(IF r.tag = "Ok" THEN "posted" ELSE "post_failed")
    /\ UNCHANGED <<env, deployed, event, calls, prev>>

Next ==
    \/ on_deploy
    \/ Deliver
    \/ Redeliver
    \/ list_comments_returns
    \/ chat_completion_returns
    \/ create_comment_returns

Spec == Init /\ [][Next]_vars

\* Each remote call eventually answers, with success or with failure.
FairSpec ==
    /\ Spec
    /\ WF_vars(list_comments_returns)
    /\ WF_vars(chat_completion_returns)
    /\ WF_vars(create_comment_returns)

----------------------------------------------------------------------------
(* Vocabulary of the properties *)

CallsOf(op) == {i \in 1..Len(calls) : calls[i].op = op}

Ops == [i \in 1..Len(calls) |-> calls[i].op]

IsIssueCommentEvent == event.tag = "Ok" /\ event.v.specific.variant = "IssueComment"

IsCreatedEvent == IsIssueCommentEvent /\ event.v.specific.action = "created"

\* needle occurs in hay as a contiguous run
IsSubstring(needle, hay) ==
    \E a \in 0..Len(hay) : \E b \in a..Len(hay) : SubSeq(hay, a + 1, b) = needle

ConfiguredTrigger ==
    IF env.trigger_phrase.tag = "Some" THEN env.trigger_phrase.v ELSE DefaultTriggerPhrase

EventBody ==
    IF event.v.specific.comment.body.tag = "Some"
    THEN event.v.specific.comment.body.v ELSE <<>>

\* The lines of a text: the runs of atoms between its line breaks.
RECURSIVE SplitLines(_, _)
SplitLines(text, line) ==
    IF text = <<>> THEN <<line>>
    ELSE IF Head(text) = NL THEN <<line>> \o SplitLines(Tail(text), <<>>)
    ELSE SplitLines(Tail(text), Append(line, Head(text)))

Lines(text) == SplitLines(text, <<>>)

----------------------------------------------------------------------------
(* C1. Whatever the event and whatever the remote calls answer, one        *)
(* invocation of the handler calls create_comment at most once.            *)
C1_AtMostOnePost == Cardinality(CallsOf("create_comment")) <= 1

\* An invocation has ended, having posted once.
C1_Witness ==
    /\ pc = "idle"
    /\ outcome = "posted"
    /\ Cardinality(CallsOf("create_comment")) = 1

(* C2. A remote call is made only for an event that deserialized, whose    *)
(* payload is an issue comment and whose action is created; in every other *)
(* case the handler has returned without any remote call.                  *)
C2_CallsOnlyForCreatedIssueComment ==
    /\ calls # <<>> => IsCreatedEvent
    /\ (event # NoEvent /\ ~IsCreatedEvent) => (pc = "idle" /\ calls = <<>> /\ resps = <<>>)

\* An edited comment that carries the trigger phrase was ignored.
C2_Witness ==
    /\ IsIssueCommentEvent
    /\ event.v.specific.action = "edited"
    /\ IsSubstring(ConfiguredTrigger, EventBody)
    /\ outcome = "not_created"
    /\ calls = <<>>

(* C3. For a created issue comment whose body (the empty string when        *)
(* absent) does not contain the configured trigger phrase, the handler     *)
(* stops before any remote call.                                           *)
C3_NoTriggerNoCall ==
    (IsCreatedEvent /\ ~IsSubstring(ConfiguredTrigger, EventBody))
        => (pc = "idle" /\ calls = <<>> /\ resps = <<>>)

\* A created comment without a body was ignored for lack of the phrase.
C3_Witness ==
    /\ IsCreatedEvent
    /\ event.v.specific.comment.body.tag = "None"
    /\ outcome = "no_trigger"
    /\ calls = <<>>

(* C4. When the comment listing fails the invocation ends at once: the     *)
(* listing is its only remote call (no completion, no post, no retry).     *)
C4_ListFailureEndsInvocation ==
    (resps # <<>> /\ resps[1].tag = "Err")
        => (pc = "idle" /\ Ops = <<"list_comments">> /\ Len(resps) = 1)

C4_Witness == outcome = "list_failed" /\ pc = "idle" /\ Len(calls) = 1

(* C5. When the completion call fails the invocation ends without a post   *)
(* and without a second completion call; a comment is posted only after a  *)
(* successful listing and a successful completion of the same invocation.  *)
C5_ChatFailureEndsInvocation ==
    /\ (Len(resps) >= 2 /\ resps[2].tag = "Err")
           => (pc = "idle" /\ Ops = <<"list_comments", "chat_completion">> /\ Len(resps) = 2)
    /\ \A i \in CallsOf("create_comment") :
           /\ i = 3
           /\ resps[1].tag = "Ok" /\ calls[1].op = "list_comments"
           /\ resps[2].tag = "Ok" /\ calls[2].op = "chat_completion"

C5_Witness == outcome = "chat_failed" /\ pc = "idle" /\ Len(calls) = 2

(* C6. The aggregated text embedded in the user prompt is the header line  *)
(* followed by exactly one line "{author} commented: {body}" per fetched   *)
(* comment, the i-th line from the i-th comment of the page, an absent     *)
(* body rendered as the empty string; nothing dropped, doubled, reordered. *)
ExpectedCommentLine(c) ==
    c.user.login \o <<" commented: ">>
    \o (IF c.body.tag = "Some" THEN c.body.v ELSE <<>>) \o <<NL>>

RECURSIVE ExpectedCommentLines(_)
ExpectedCommentLines(items) ==
    IF items = <<>> THEN <<>>
    ELSE ExpectedCommentLines(SubSeq(items, 1, Len(items) - 1))
         \o ExpectedCommentLine(items[Len(items)])

C6_AggregatedText ==
    \A i \in CallsOf("chat_completion") :
        LET prompt == calls[i].usr_prompt
            text == SubSeq(prompt, 2, Len(prompt) - 1)
            items == resps[1].v.items
        IN  /\ resps[1].tag = "Ok"
            /\ prompt[1] = UsrPromptLead
            /\ prompt[Len(prompt)] = UsrPromptTail
            /\ text = Header(event.v.specific.issue) \o ExpectedCommentLines(items)
            /\ Cardinality({j \in 1..Len(text) : text[j] = NL})
                   = Cardinality({j \in 1..Len(Header(event.v.specific.issue)) :
                                      Header(event.v.specific.issue)[j] = NL})
                     + Len(items)

\* A prompt was built from two comments, the first of them without a body.
C6_Witness ==
    /\ CallsOf("chat_completion") # {}
    /\ Len(resps[1].v.items) = 2
    /\ resps[1].v.items[1].body.tag = "None"
    /\ resps[1].v.items[2].body.tag = "Some"

(* C7 as claimed. The posted body has exactly four lines: title, URL,       *)
(* summary and the attribution naming the author of the triggering comment.*)
C7_ExactlyFourLines ==
    \A i \in CallsOf("create_comment") :
        LET L == Lines(calls[i].body)
        IN  /\ Len(L) = 4
            /\ L[1] = event.v.specific.issue.title
            /\ L[2] = event.v.specific.issue.html_url
            /\ L[3] = resps[2].v.choice
            /\ L[4] = <<Attribution>> \o event.v.specific.comment.user.login

(* C7 as amended. The posted body is the title, the URL, the summary, an   *)
(* empty line and the attribution naming the author of the triggering      *)
(* comment, in this order: five lines when the summary is a single line,   *)
(* more when the summary spans several; it is posted on the issue of the   *)
(* triggering event.                                                       *)
C7_TitleUrlSummaryBlankAttribution ==
    \A i \in CallsOf("create_comment") :
        LET L == Lines(calls[i].body)
            summary == resps[2].v.choice
        IN  /\ L = <<event.v.specific.issue.title, event.v.specific.issue.html_url>>
                   \o Lines(summary)
                   \o <<<<>>, <<Attribution>> \o event.v.specific.comment.user.login>>
            /\ Len(L) = 4 + Len(Lines(summary))
            /\ calls[i].issue = event.v.specific.issue.number
            /\ calls[i].issue = calls[1].issue

\* A summary of one line was posted: the body has five lines.
C7_Witness ==
    /\ outcome = "posted"
    /\ Len(Lines(resps[2].v.choice)) = 1
    /\ Len(Lines(calls[3].body)) = 5

(* C8. With llm_ctx_size set to a string that does not parse as an         *)
(* unsigned 32-bit integer the handler fails when it reads its             *)
(* configuration: every delivered event ends in a panic, and no listing,   *)
(* completion or post is ever made.                                        *)
C8_InvalidCtxSizeNoProcessing ==
    (env.llm_ctx_size.tag = "Some" /\ env.llm_ctx_size.v \in InvalidCtxSizes)
        => /\ pc = "idle"
           /\ calls = <<>>
           /\ resps = <<>>
           /\ event # NoEvent => outcome = "panic"

\* A created comment with the trigger phrase was delivered and the handler panicked.
C8_Witness ==
    /\ env.llm_ctx_size = Some(<<"a", "b", "c">>)
    /\ deployed = "listening"
    /\ IsCreatedEvent
    /\ IsSubstring(ConfiguredTrigger, EventBody)
    /\ outcome = "panic"

(* C9. The handler does not deduplicate and keeps nothing from one         *)
(* invocation to the next: when an event is delivered again, the handler   *)
(* makes the same calls as before as long as the remote answers are the    *)
(* same, whatever the earlier invocation ended with; so a second delivery  *)
(* of an event whose summary was posted lists, completes and posts again.  *)
C9_RedeliveryRepeats ==
    prev # NoPrev =>
        /\ \A k \in 1..Len(prev.calls) :
               (Len(resps) >= k - 1 /\ SubSeq(resps, 1, k - 1) = SubSeq(prev.resps, 1, k - 1))
                   => (Len(calls) >= k /\ calls[k] = prev.calls[k])
        /\ \A k \in 1..Len(prev.calls) :
               (Len(resps) >= k - 1 /\ \A j \in 1..(k - 1) : resps[j].tag = prev.resps[j].tag)
                   => (Len(calls) >= k /\ calls[k].op = prev.calls[k].op)
        /\ \A k \in 1..Len(calls) :
               (Len(prev.resps) >= k - 1 /\ \A j \in 1..(k - 1) : resps[j].tag = prev.resps[j].tag)
                   => (Len(prev.calls) >= k /\ calls[k].op = prev.calls[k].op)
        /\ (pc = "idle" /\ resps = prev.resps) => outcome = prev.outcome

\* The same event was delivered twice and its summary was posted twice.
C9_Witness ==
    /\ prev.outcome = "posted"
    /\ outcome = "posted"
    /\ pc = "idle"
    /\ Ops = <<"list_comments", "chat_completion", "create_comment">>
    /\ calls = prev.calls

(* C10. The handler makes each of the three remote calls at most once, in  *)
(* the order listing, completion, post; a failure of any of them ends the  *)
(* invocation; and when every remote call eventually answers, an           *)
(* invocation that is processing eventually returns to idle.               *)
CallOrder == <<"list_comments", "chat_completion", "create_comment">>

C10_Structure ==
    /\ Len(calls) <= 3
    /\ \A i \in 1..Len(calls) : calls[i].op = CallOrder[i]
    /\ pc # "idle" => (Len(calls) = Len(resps) + 1 /\ pc = calls[Len(calls)].op)
    /\ pc = "idle" => Len(resps) = Len(calls)
    /\ \A i \in 1..Len(resps) : resps[i].tag = "Err" => (i = Len(resps) /\ pc = "idle")

C10_ProcessingReturnsToIdle ==
    /\ []C10_Structure
    /\ (pc # "idle") ~> (pc = "idle")

\* The final post failed and the handler is idle again.
C10_Witness ==
    /\ pc = "idle"
    /\ Len(resps) = 3
    /\ resps[3].tag = "Err"
    /\ resps[1].tag = "Ok"

====
